---- MODULE Spec2Model ----
(***************************************************************************)
(* Gridworld MDP (src/src/environment.py, src/src/config.py) and the       *)
(* dynamic-programming solver MDPSolver (src/src/solver.py).               *)
(*                                                                         *)
(* Numbers.  Python floats are modelled as fixed-point integers:           *)
(*   - utilities, rewards, epsilon and delta count millionths (One = 1.0), *)
(*   - probabilities count tenths (ProbDen = 1.0),                         *)
(*   - gamma counts hundredths (GammaDen = 1.0).                           *)
(* Python values that travel through the untyped interface between the     *)
(* environment and the solver (the entries of the list get_transitions     *)
(* returns) carry their Python type: PyFloat(x) and PyTuple(s).            *)
(***************************************************************************)
EXTENDS Integers, Sequences, FiniteSets, TLC

VARIABLES
    action_keys,        \* list(ACTIONS.keys()) of the configuration the program loaded
    order,              \* the order in which iterating env.states yields the states
    pc,                 \* where the program is
    gamma,              \* MDPSolver.gamma   (hundredths)
    epsilon,            \* MDPSolver.epsilon (millionths)
    utilities,          \* MDPSolver.utilities
    calls,              \* number of solve_* calls made on the solver so far
    iteration,          \* local `iteration` of the running solve_* call
    delta,              \* local `delta` of the running sweep
    new_utilities,      \* local `new_utilities` / `new_eval_utilities` of the sweep
    idx,                \* number of states the running `for state in ...` has consumed
    policy,             \* local `policy` of solve_policy_iteration
    eval_utilities,     \* local `eval_utilities` of _policy_evaluation
    retVI,              \* outcome of the last solve_value_iteration call
    retPI,              \* outcome of the last solve_policy_iteration call
    query               \* the last direct query made to the environment

vars == <<action_keys, order, pc, gamma, epsilon, utilities, calls, iteration, delta,
          new_utilities, idx, policy, eval_utilities, retVI, retPI, query>>

solverVars == <<pc, gamma, epsilon, utilities, calls, iteration, delta,
                new_utilities, idx, policy, eval_utilities, retVI, retPI>>

----------------------------------------------------------------------------
(* Units of the fixed-point representation *)

One == 1000000
ProbDen == 10
GammaDen == 100

(* Bounds of the model *)

MaxCalls == 2          \* solve_* calls made on one solver object
MaxSweeps == 3         \* sweeps of one solve_value_iteration call / outer iterations
MaxDeviations == 1     \* states where the random initial policy leaves a uniform one

----------------------------------------------------------------------------
(* config.py *)

GRID_HEIGHT == 3
GRID_WIDTH == 4
WALL_STATES == {<<1, 1>>}
GOAL_STATE == <<0, 3>>
TRAP_STATE == <<1, 3>>

REWARD_GOAL == 1000000
REWARD_TRAP == -1000000
REWARD_DEFAULT == -40000

\* ACTIONS (a reserved word of TLA+)
Actions ==
    [North |-> <<-1, 0>>, South |-> <<1, 0>>, East |-> <<0, 1>>, West |-> <<0, -1>>]

\* list(ACTIONS.keys()): a dict keeps insertion order
ActionKeys == <<"North", "South", "East", "West">>

PROB_INTEND == 8
PROB_SLIP_LEFT == 1
PROB_SLIP_RIGHT == 1

DEFAULT_GAMMA == 99
DEFAULT_EPSILON == 100

----------------------------------------------------------------------------
(* Python values at the environment/solver interface *)

PyFloat(x) == [kind |-> "float", val |-> x]
PyTuple(s) == [kind |-> "tuple", val |-> s]

None == "None"

----------------------------------------------------------------------------
(* environment.py: Gridworld *)

\* Gridworld.__init__: self.states
States ==
    {<<r, c>> : r \in 0..(GRID_HEIGHT - 1), c \in 0..(GRID_WIDTH - 1)} \ WALL_STATES

\* Gridworld.__init__: self.terminal_states
terminal_states == {GOAL_STATE, TRAP_STATE}

\* Gridworld.__init__: self._action_slips
action_slips ==
    [North |-> [left |-> "West",  right |-> "East"],
     South |-> [left |-> "East",  right |-> "West"],
     East  |-> [left |-> "North", right |-> "South"],
     West  |-> [left |-> "South", right |-> "North"]]

get_states == States

get_actions(state) ==
    IF state \in terminal_states THEN <<>> ELSE action_keys

get_reward(state) ==
    IF state = GOAL_STATE THEN REWARD_GOAL
    ELSE IF state = TRAP_STATE THEN REWARD_TRAP
    ELSE REWARD_DEFAULT

calculate_next_state(state, action_name) ==
    IF state \in terminal_states THEN state
    ELSE LET dr == Actions[action_name][1]
             dc == Actions[action_name][2]
             next_r == state[1] + dr
             next_c == state[2] + dc
             next_state == <<next_r, next_c>>
         IN  IF ~(0 <= next_r /\ next_r < GRID_HEIGHT /\ 0 <= next_c /\ next_c < GRID_WIDTH)
                \/ next_state \in WALL_STATES
             THEN state
             ELSE next_state

\* a new item for every outcome, merging nothing
DictAddNoMerge(d, key, prob) == Append(d, <<key, 0 + prob>>)

\* `consolidated[s_prime] = consolidated.get(s_prime, 0.0) + prob` on a dict kept as
\* the sequence of its <<key, value>> items in insertion order
DictAdd(d, key, prob) ==
    IF \E i \in 1..Len(d) : d[i][1] = key
    THEN [i \in 1..Len(d) |-> IF d[i][1] = key THEN <<key, d[i][2] + prob>> ELSE d[i]]
    ELSE Append(d, <<key, 0 + prob>>)

RECURSIVE Consolidate(_, _, _)
Consolidate(transitions, i, d) ==
    IF i > Len(transitions) THEN d
    ELSE Consolidate(transitions, i + 1,
                     DictAdd(d, transitions[i][2], transitions[i][1]))

\* the items as (value, key) tuples
DictItemsValueFirst(d) == [i \in 1..Len(d) |-> <<PyFloat(d[i][2]), PyTuple(d[i][1])>>]

\* list(d.items()): one (key, value) tuple per item
DictItems(d) == [i \in 1..Len(d) |-> <<PyTuple(d[i][1]), PyFloat(d[i][2])>>]

get_transitions(state, action) ==
    IF state \in terminal_states THEN <<>>
    ELSE LET action_intend == action
             action_left == action_slips[action].left
             action_right == action_slips[action].right
             transitions ==
                 << <<PROB_INTEND, calculate_next_state(state, action_intend)>>,
                    <<PROB_SLIP_LEFT, calculate_next_state(state, action_left)>>,
                    <<PROB_SLIP_RIGHT, calculate_next_state(state, action_right)>> >>
             consolidated == Consolidate(transitions, 1, <<>>)
         IN  DictItems(consolidated)

----------------------------------------------------------------------------
(* The order in which `for state in self.env.get_states()` yields the states.  *)
(* get_states returns a set: the language fixes no order, only that iterating  *)
(* the same unmodified set again yields the same order.                        *)

RowMajor ==
    LET cells == [k \in 1..(GRID_HEIGHT * GRID_WIDTH) |->
                     <<(k - 1) \div GRID_WIDTH, (k - 1) % GRID_WIDTH>>]
    IN  SelectSeq(cells, LAMBDA s : s \in States)

ColMajor ==
    LET cells == [k \in 1..(GRID_HEIGHT * GRID_WIDTH) |->
                     <<(k - 1) % GRID_HEIGHT, (k - 1) \div GRID_HEIGHT>>]
    IN  SelectSeq(cells, LAMBDA s : s \in States)

\* seq read cyclically from its element s on
RotateTo(seq, s) ==
    LET k == CHOOSE i \in 1..Len(seq) : seq[i] = s
    IN  [i \in 1..Len(seq) |-> seq[((i - 1 + k - 1) % Len(seq)) + 1]]

\* the orders considered: the insertion order of lines 36-39, the column-wise
\* order, and each of them read from a terminal state on
Orders ==
    {RowMajor, ColMajor}
        \cup {RotateTo(o, s) : o \in {RowMajor, ColMajor}, s \in terminal_states}

----------------------------------------------------------------------------
(* Float arithmetic of the solver, in fixed point *)

Abs(x) == IF x < 0 THEN -x ELSE x

Max(a, b) == IF a >= b THEN a ELSE b

\* n / d rounded to the nearest unit (d > 0)
RoundDiv(n, d) == (2 * n + d) \div (2 * d)

\* `self.gamma * x`
MulGamma(g, x) == RoundDiv(g * x, GammaDen)

----------------------------------------------------------------------------
(* solver.py: MDPSolver *)

\* {s: 0.0 for s in self.env.get_states()}
ZeroTable == [s \in get_states |-> 0]

\* MDPSolver.__init__, line 32
InitialUtilities == ZeroTable

\* `utilities[next_state]`: the lookup succeeds when the key is in the dict
HasKey(U, key) == key.kind = "tuple" /\ key.val \in DOMAIN U

\* for prob, next_state in self.env.get_transitions(state, action):
\*     expected_utility += prob * utilities[next_state]
\* acc counts tenths of millionths; the float result counts millionths
RECURSIVE ExpectedUtility(_, _, _, _)
ExpectedUtility(transitions, U, i, acc) ==
    IF i > Len(transitions) THEN [exc |-> "none", val |-> RoundDiv(acc, ProbDen)]
    ELSE LET prob == transitions[i][1]
             next_state == transitions[i][2]
         IN  IF ~HasKey(U, next_state) THEN [exc |-> "KeyError", val |-> 0]
             ELSE IF prob.kind # "float" THEN [exc |-> "TypeError", val |-> 0]
             ELSE ExpectedUtility(transitions, U, i + 1,
                                  acc + prob.val * U[next_state.val])

\* the loop of _get_q_values over the actions; q_values is kept as the sequence of
\* its <<action, q_value>> items in insertion order
RECURSIVE QLoop(_, _, _, _)
QLoop(state, U, actions, q_values) ==
    IF actions = <<>> THEN [exc |-> "none", q |-> q_values]
    ELSE LET r == ExpectedUtility(get_transitions(state, Head(actions)), U, 1, 0)
         IN  IF r.exc # "none" THEN [exc |-> r.exc, q |-> <<>>]
             ELSE QLoop(state, U, Tail(actions),
                        Append(q_values, <<Head(actions), r.val>>))

get_q_values(state, U) == QLoop(state, U, get_actions(state), <<>>)

\* max(q_values.values())
MaxQ(q) == CHOOSE m \in {q[i][2] : i \in 1..Len(q)} :
               \A i \in 1..Len(q) : q[i][2] <= m

\* max(q_values, key=q_values.get): the first key that reaches the maximum
BestAction(q) ==
    LET first == CHOOSE i \in 1..Len(q) :
                     /\ q[i][2] = MaxQ(q)
                     /\ \A j \in 1..(i - 1) : q[j][2] < MaxQ(q)
    IN  q[first][1]

\* the exception, if any, that computing the q-values of some state raises
QError(U) ==
    LET bad == {s \in get_states \ terminal_states : get_q_values(s, U).exc # "none"}
    IN  IF bad = {} THEN "none"
        ELSE get_q_values(CHOOSE s \in bad : TRUE, U).exc

\* the greedy choice with a default action where there is none to choose
GreedyDefaultAction(state, U) ==
    IF state \in terminal_states THEN None
    ELSE LET q == get_q_values(state, U).q
         IN  IF q = <<>> THEN ActionKeys[1] ELSE BestAction(q)

\* the greedy choice of lines 233-245 and 124-136 for one state
Greedy(state, U) ==
    IF state \in terminal_states THEN None
    ELSE LET q == get_q_values(state, U).q
         IN  IF q = <<>> THEN None ELSE BestAction(q)

extract_policy(U) ==
    [exc |-> QError(U), policy |-> [s \in get_states |-> Greedy(s, U)]]

\* Policy Improvement, lines 120-143
Improve(U, pol) ==
    [exc |-> QError(U),
     new_policy |-> [s \in get_states |-> Greedy(s, U)],
     is_stable |-> \A s \in get_states : Greedy(s, U) = None \/ Greedy(s, U) = pol[s]]

----------------------------------------------------------------------------
(* Inputs *)

Range(seq) == {seq[i] : i \in 1..Len(seq)}

\* the --gamma and --epsilon a solver is constructed with
Gammas == {-10, 50, DEFAULT_GAMMA, GammaDen}
Epsilons == {DEFAULT_EPSILON, One \div 20}

\* the policies lines 101-107 can draw: random.choice(actions) at each state,
\* here at most MaxDeviations states away from some uniform policy
InitPolicies ==
    LET NonTerminal == get_states \ terminal_states
        Devs == {D \in SUBSET NonTerminal : Cardinality(D) <= MaxDeviations}
        Pol(a, D, f) ==
            [s \in get_states |->
                IF s \in terminal_states THEN None
                ELSE IF get_actions(s) = <<>> THEN None
                ELSE IF s \in D THEN f[s] ELSE a]
        Choices == IF action_keys = <<>> THEN {None} ELSE Range(action_keys)
    IN  UNION { UNION { {Pol(a, D, f) : f \in [D -> Range(action_keys)]} : D \in Devs }
                : a \in Choices }

----------------------------------------------------------------------------
(* State *)

NoRet == [status |-> "none", utilities |-> <<>>, policy |-> <<>>, delta |-> 0, iteration |-> 0]

NoQuery == [op |-> "none", state |-> <<>>, action |-> None, result |-> <<>>]

\* the program after `env = Gridworld()`, before the solver is constructed
Start ==
    /\ order \in Orders
    /\ pc = "start"
    /\ gamma = 0
    /\ epsilon = 0
    /\ utilities = <<>>
    /\ calls = 0
    /\ iteration = 0
    /\ delta = 0
    /\ new_utilities = <<>>
    /\ idx = 0
    /\ policy = <<>>
    /\ eval_utilities = <<>>
    /\ retVI = NoRet
    /\ retPI = NoRet
    /\ query = NoQuery

Init ==
    /\ action_keys = ActionKeys
    /\ Start

\* the same program with config.py's ACTIONS left empty: no state has a legal
\* action, so every non-terminal state is actionless
InitNoActions ==
    /\ action_keys = <<>>
    /\ Start

\* the locals of a solve_* call are gone when the call ends
LocalsGone ==
    /\ iteration' = 0
    /\ delta' = 0
    /\ new_utilities' = <<>>
    /\ idx' = 0
    /\ policy' = <<>>
    /\ eval_utilities' = <<>>

Raised(exc) ==
    [status |-> exc, utilities |-> <<>>, policy |-> <<>>, delta |-> 0, iteration |-> iteration]

\* MDPSolver.__init__
MDPSolver_init(g, e) ==
    /\ pc = "start"
    /\ pc' = "idle"
    /\ gamma' = g
    /\ epsilon' = e
    /\ utilities' = InitialUtilities
    /\ UNCHANGED <<action_keys, order, calls, iteration, delta, new_utilities, idx, policy,
                   eval_utilities, retVI, retPI, query>>

----------------------------------------------------------------------------
(* solve_value_iteration *)

\* entry of solve_value_iteration, line 48
solve_value_iteration ==
    /\ pc = "idle"
    /\ calls < MaxCalls
    /\ calls' = calls + 1
    /\ iteration' = 0
    /\ pc' = "vi_while"
    /\ UNCHANGED <<action_keys, order, gamma, epsilon, utilities, delta, new_utilities, idx,
                   policy, eval_utilities, retVI, retPI, query>>

\* top of the while loop, lines 49-53
vi_sweep_begin ==
    /\ pc = "vi_while"
    /\ iteration < MaxSweeps
    /\ iteration' = iteration + 1
    /\ delta' = 0
    /\ new_utilities' = utilities
    /\ idx' = 0
    /\ pc' = "vi_for"
    /\ UNCHANGED <<action_keys, order, gamma, epsilon, utilities, calls, policy, eval_utilities,
                   retVI, retPI, query>>

\* solve_value_iteration raises: the exception leaves the call, self.utilities is
\* as the last completed sweep left it
vi_raise(exc) ==
    /\ retVI' = Raised(exc)
    /\ pc' = "idle"
    /\ LocalsGone
    /\ UNCHANGED <<action_keys, order, gamma, epsilon, utilities, calls, retPI, query>>

\* the sweep writing into the current table: `new_utilities = self.utilities`,
\* no copy
vi_after_state_in_place(nu, d) ==
    IF idx + 1 < Len(order)
    THEN /\ new_utilities' = nu
         /\ utilities' = nu
         /\ delta' = d
         /\ idx' = idx + 1
         /\ UNCHANGED <<action_keys, order, pc, gamma, epsilon, calls, iteration,
                        policy, eval_utilities, retVI, retPI, query>>
    ELSE IF d < epsilon
    THEN LET ex == extract_policy(nu)
         IN  IF ex.exc # "none"
             THEN /\ utilities' = nu
                  /\ retVI' = Raised(ex.exc)
                  /\ pc' = "idle"
                  /\ LocalsGone
                  /\ UNCHANGED <<action_keys, order, gamma, epsilon, calls, retPI, query>>
             ELSE /\ utilities' = nu
                  /\ retVI' = [status |-> "returned", utilities |-> nu,
                               policy |-> ex.policy, delta |-> d,
                               iteration |-> iteration]
                  /\ pc' = "idle"
                  /\ LocalsGone
                  /\ UNCHANGED <<action_keys, order, gamma, epsilon, calls, retPI, query>>
    ELSE /\ utilities' = nu
         /\ new_utilities' = nu
         /\ delta' = d
         /\ idx' = idx + 1
         /\ pc' = "vi_while"
         /\ UNCHANGED <<action_keys, order, gamma, epsilon, calls, iteration, policy,
                        eval_utilities, retVI, retPI, query>>

\* the rest of the loop body once `state` has its new utility: the next state of
\* the for loop, or after the last one lines 73-84
vi_after_state(nu, d) ==
    IF idx + 1 < Len(order)
    THEN /\ new_utilities' = nu
         /\ delta' = d
         /\ idx' = idx + 1
         /\ UNCHANGED <<action_keys, order, pc, gamma, epsilon, utilities, calls, iteration,
                        policy, eval_utilities, retVI, retPI, query>>
    ELSE IF d < epsilon
    THEN LET ex == extract_policy(nu)
         IN  IF ex.exc # "none"
             THEN /\ utilities' = nu
                  /\ retVI' = Raised(ex.exc)
                  /\ pc' = "idle"
                  /\ LocalsGone
                  /\ UNCHANGED <<action_keys, order, gamma, epsilon, calls, retPI, query>>
             ELSE /\ utilities' = nu
                  /\ retVI' = [status |-> "returned", utilities |-> nu,
                               policy |-> ex.policy, delta |-> d,
                               iteration |-> iteration]
                  /\ pc' = "idle"
                  /\ LocalsGone
                  /\ UNCHANGED <<action_keys, order, gamma, epsilon, calls, retPI, query>>
    ELSE /\ utilities' = nu
         /\ new_utilities' = nu
         /\ delta' = d
         /\ idx' = idx + 1
         /\ pc' = "vi_while"
         /\ UNCHANGED <<action_keys, order, gamma, epsilon, calls, iteration, policy,
                        eval_utilities, retVI, retPI, query>>

\* one round of `for state in self.env.get_states()`, lines 55-70, and after the
\* last state the rest of the while body, lines 73-84
vi_for_state ==
    /\ pc = "vi_for"
    /\ LET state == order[idx + 1]
       IN  IF state \in terminal_states
           THEN vi_after_state([new_utilities EXCEPT ![state] = get_reward(state)],
                               delta)
           ELSE LET q_values == get_q_values(state, utilities)
                IN  IF q_values.exc # "none"
                    THEN vi_raise(q_values.exc)
                    ELSE LET max_q == IF q_values.q # <<>> THEN MaxQ(q_values.q) ELSE 0
                             u == get_reward(state) + MulGamma(gamma, max_q)
                         IN  vi_after_state([new_utilities EXCEPT ![state] = u],
                                            Max(delta, Abs(u - utilities[state])))

----------------------------------------------------------------------------
(* solve_policy_iteration and _policy_evaluation *)

\* entry of solve_policy_iteration, lines 100-109: the random initial policy
solve_policy_iteration ==
    /\ pc = "idle"
    /\ calls < MaxCalls
    /\ calls' = calls + 1
    /\ \E p \in InitPolicies : policy' = p
    /\ iteration' = 0
    /\ pc' = "pi_while"
    /\ UNCHANGED <<action_keys, order, gamma, epsilon, utilities, delta, new_utilities, idx,
                   eval_utilities, retVI, retPI, query>>

\* top of the outer while loop, lines 110-116, and entry of _policy_evaluation,
\* line 162
pi_iteration_begin ==
    /\ pc = "pi_while"
    /\ iteration < MaxSweeps
    /\ iteration' = iteration + 1
    /\ eval_utilities' = ZeroTable
    /\ pc' = "pe_while"
    /\ UNCHANGED <<action_keys, order, gamma, epsilon, utilities, calls, delta, new_utilities,
                   idx, policy, retVI, retPI, query>>

\* top of the while loop of _policy_evaluation, lines 164-166
pe_sweep_begin ==
    /\ pc = "pe_while"
    /\ delta' = 0
    /\ new_utilities' = eval_utilities
    /\ idx' = 0
    /\ pc' = "pe_for"
    /\ UNCHANGED <<action_keys, order, gamma, epsilon, utilities, calls, iteration, policy,
                   eval_utilities, retVI, retPI, query>>

\* an exception raised in _policy_evaluation or in the improvement step leaves
\* solve_policy_iteration
pi_raise(exc, U) ==
    /\ retPI' = Raised(exc)
    /\ utilities' = U
    /\ pc' = "idle"
    /\ LocalsGone
    /\ UNCHANGED <<action_keys, order, gamma, epsilon, calls, retVI, query>>

\* the rest of the loop body of _policy_evaluation once `state` has its new
\* utility: the next state, or after the last one lines 193-199 and, when the
\* evaluation has converged, lines 116-150 of solve_policy_iteration
pe_after_state(nu, d) ==
    IF idx + 1 < Len(order)
    THEN /\ new_utilities' = nu
         /\ delta' = d
         /\ idx' = idx + 1
         /\ UNCHANGED <<action_keys, order, pc, gamma, epsilon, utilities, calls, iteration,
                        policy, eval_utilities, retVI, retPI, query>>
    ELSE IF d < epsilon
    THEN LET im == Improve(nu, policy)
         IN  IF im.exc # "none"
             THEN pi_raise(im.exc, nu)
             ELSE IF im.is_stable
             THEN /\ utilities' = nu
                  /\ retPI' = [status |-> "returned", utilities |-> nu,
                               policy |-> im.new_policy, delta |-> d,
                               iteration |-> iteration]
                  /\ pc' = "idle"
                  /\ LocalsGone
                  /\ UNCHANGED <<action_keys, order, gamma, epsilon, calls, retVI, query>>
             ELSE /\ utilities' = nu
                  /\ policy' = im.new_policy
                  /\ eval_utilities' = nu
                  /\ new_utilities' = nu
                  /\ delta' = d
                  /\ idx' = idx + 1
                  /\ pc' = "pi_while"
                  /\ UNCHANGED <<action_keys, order, gamma, epsilon, calls, iteration, retVI,
                                 retPI, query>>
    ELSE /\ eval_utilities' = nu
         /\ new_utilities' = nu
         /\ delta' = d
         /\ idx' = idx + 1
         /\ pc' = "pe_while"
         /\ UNCHANGED <<action_keys, order, gamma, epsilon, utilities, calls, iteration, policy,
                        retVI, retPI, query>>

\* one round of `for state in self.env.get_states()`, lines 168-191
pe_for_state ==
    /\ pc = "pe_for"
    /\ LET state == order[idx + 1]
           action == policy[state]
       IN  IF state \in terminal_states
           THEN pe_after_state([new_utilities EXCEPT ![state] = get_reward(state)],
                               delta)
           ELSE IF action = None
           THEN pe_after_state([new_utilities EXCEPT ![state] = get_reward(state)],
                               delta)
           ELSE LET r == ExpectedUtility(get_transitions(state, action),
                                         eval_utilities, 1, 0)
                IN  IF r.exc # "none"
                    THEN pi_raise(r.exc, utilities)
                    ELSE LET u == get_reward(state) + MulGamma(gamma, r.val)
                         IN  pe_after_state([new_utilities EXCEPT ![state] = u],
                                            Max(delta, Abs(u - eval_utilities[state])))

----------------------------------------------------------------------------
(* The program: main.py constructs the environment and a solver, then solves *)

Next ==
    \/ \E g \in Gammas, e \in Epsilons : MDPSolver_init(g, e)
    \/ solve_value_iteration
    \/ vi_sweep_begin
    \/ vi_for_state
    \/ solve_policy_iteration
    \/ pi_iteration_begin
    \/ pe_sweep_begin
    \/ pe_for_state

Spec == Init /\ [][Next]_vars

SpecNoActions == InitNoActions /\ [][Next]_vars

----------------------------------------------------------------------------
(* Direct queries of the environment's interface *)

Ask(op, state, action, result) ==
    /\ query' = [op |-> op, state |-> state, action |-> action, result |-> result]
    /\ UNCHANGED <<action_keys, order, solverVars>>

ask_get_actions == \E s \in get_states : Ask("get_actions", s, None, get_actions(s))

ask_get_reward == \E s \in get_states : Ask("get_reward", s, None, get_reward(s))

ask_get_transitions ==
    \E s \in get_states, a \in Range(ActionKeys) :
        Ask("get_transitions", s, a, get_transitions(s, a))

ask_calculate_next_state ==
    \E s \in get_states, a \in Range(ActionKeys) :
        Ask("_calculate_next_state", s, a, calculate_next_state(s, a))

NextEnv ==
    \/ ask_get_actions
    \/ ask_get_reward
    \/ ask_get_transitions
    \/ ask_calculate_next_state

SpecEnv == Init /\ [][NextEnv]_vars

----------------------------------------------------------------------------
(* Reading the results *)

NonTerminal == get_states \ terminal_states

\* the probability and the successor state that an entry of the list returned by
\* get_transitions holds, whichever place of the tuple each is in
EntryProb(e) == IF e[1].kind = "float" THEN e[1].val ELSE e[2].val
EntrySucc(e) == IF e[1].kind = "tuple" THEN e[1].val ELSE e[2].val

RECURSIVE SumProb(_, _)
SumProb(r, i) == IF i > Len(r) THEN 0 ELSE EntryProb(r[i]) + SumProb(r, i + 1)

\* the probability with which (state, action) lands on s: the intended move and
\* the two slips, each worked out on its own
OutcomeMass(state, action, s) ==
    (IF calculate_next_state(state, action) = s THEN PROB_INTEND ELSE 0)
    + (IF calculate_next_state(state, action_slips[action].left) = s
       THEN PROB_SLIP_LEFT ELSE 0)
    + (IF calculate_next_state(state, action_slips[action].right) = s
       THEN PROB_SLIP_RIGHT ELSE 0)

Finished(ret) == ret.status # "none"
Returned(ret) == ret.status = "returned"

\* the actions that reach the maximum action-value at state s under table U
Maximizers(s, U) ==
    LET q == get_q_values(s, U).q
    IN  {q[i][1] : i \in {j \in 1..Len(q) : q[j][2] = MaxQ(q)}}

\* number of deterministic policies: one action of get_actions(s) at every
\* state that has any
RECURSIVE NumPolicies(_)
NumPolicies(S) ==
    IF S = {} THEN 1
    ELSE LET s == CHOOSE x \in S : TRUE
         IN  Max(1, Len(get_actions(s))) * NumPolicies(S \ {s})

----------------------------------------------------------------------------
(* C1 *)

\* C1: for every non-terminal state and every action, the list returned by
\* get_transitions holds one probability and one successor state per entry, the
\* probabilities sum to 1.0, no successor state occurs twice, and the probability
\* of each successor is the sum of the outcomes (intended move, slips) that land
\* on it.
C1_TransitionsConsolidated ==
    (query.op = "get_transitions" /\ query.state \notin terminal_states) =>
        LET r == query.result
        IN  /\ \A i \in 1..Len(r) : {r[i][1].kind, r[i][2].kind} = {"float", "tuple"}
            /\ SumProb(r, 1) = ProbDen
            /\ \A i, j \in 1..Len(r) : EntrySucc(r[i]) = EntrySucc(r[j]) => i = j
            /\ \A i \in 1..Len(r) :
                   /\ EntrySucc(r[i]) \in get_states
                   /\ EntryProb(r[i]) =
                          OutcomeMass(query.state, query.action, EntrySucc(r[i]))

\* C1 witness: a query whose outcomes were merged (fewer entries than outcomes)
C1_Witness ==
    /\ query.op = "get_transitions"
    /\ query.state \notin terminal_states
    /\ Len(query.result) = 2

----------------------------------------------------------------------------
(* C2 *)

\* C2: for every terminal state get_actions and get_transitions are empty, and a
\* solve_value_iteration or solve_policy_iteration call that has ended has
\* returned a utility table in which the state's utility is get_reward(state).
C2_TerminalAbsorption ==
    \A t \in terminal_states :
        /\ get_actions(t) = <<>>
        /\ \A a \in Range(ActionKeys) : get_transitions(t, a) = <<>>
        /\ Finished(retVI) => (Returned(retVI) /\ retVI.utilities[t] = get_reward(t))
        /\ Finished(retPI) => (Returned(retPI) /\ retPI.utilities[t] = get_reward(t))

----------------------------------------------------------------------------
(* C3 *)

\* the table and the policy a call returned are total over the state set, and
\* the policy is null exactly at the terminal and actionless states
TotalResult(ret) ==
    /\ Returned(ret)
    /\ DOMAIN ret.utilities = get_states
    /\ DOMAIN ret.policy = get_states
    /\ \A s \in get_states :
           IF s \in terminal_states \/ get_actions(s) = <<>>
           THEN ret.policy[s] = None
           ELSE ret.policy[s] \in Range(get_actions(s))

\* C3: a solve call that has ended has returned a utility table and a policy
\* whose key set is exactly the state set, the policy null exactly at terminal
\* or actionless states and otherwise a member of get_actions(state).
C3_ResultsTotal ==
    /\ Finished(retVI) => TotalResult(retVI)
    /\ Finished(retPI) => TotalResult(retPI)

----------------------------------------------------------------------------
(* C4 *)

\* C4: a solver exists only with gamma in [0, 1), so no solve call runs its
\* loop with gamma >= 1 or gamma < 0.
C4_GammaRejected ==
    pc # "start" => (0 <= gamma /\ gamma < GammaDen)

----------------------------------------------------------------------------
(* C5 *)

\* C5: with gamma in [0, 1) and epsilon > 0, a solve_value_iteration call ends
\* by leaving its loop after a sweep with delta < epsilon.
C5_VIConverges ==
    (0 <= gamma /\ gamma < GammaDen /\ epsilon > 0 /\ Finished(retVI)) =>
        (Returned(retVI) /\ retVI.delta < epsilon)

----------------------------------------------------------------------------
(* C6 *)

\* C6: from any initial policy a solve_policy_iteration call ends with a policy
\* that the improvement step leaves unchanged at every state, after at most as
\* many outer iterations as there are deterministic policies.
C6_PIReachesStablePolicy ==
    Finished(retPI) =>
        /\ Returned(retPI)
        /\ Improve(retPI.utilities, retPI.policy).is_stable
        /\ retPI.iteration <= NumPolicies(get_states)

----------------------------------------------------------------------------
(* C7 *)

\* C7: once both algorithms have been run with the same gamma and epsilon, both
\* have returned, their utility tables differ by at most 1e-3 at every state and
\* their policies agree wherever the action-value maximizer is unique.
C7_VIAndPIAgree ==
    (Finished(retVI) /\ Finished(retPI)) =>
        /\ Returned(retVI)
        /\ Returned(retPI)
        /\ \A s \in get_states :
               Abs(retVI.utilities[s] - retPI.utilities[s]) <= One \div 1000
        /\ \A s \in NonTerminal :
               Cardinality(Maximizers(s, retVI.utilities)) = 1
                   => retVI.policy[s] = retPI.policy[s]

----------------------------------------------------------------------------
(* C8 *)

\* C8: on the reference grid with gamma = 0.99 and epsilon = 1e-4 a
\* solve_value_iteration call converges, (0,2) has the highest utility of the
\* non-terminal states and the policy at (0,2) is East.
C8_ReferenceSolution ==
    (gamma = DEFAULT_GAMMA /\ epsilon = DEFAULT_EPSILON /\ Finished(retVI)) =>
        /\ Returned(retVI)
        /\ \A s \in NonTerminal : retVI.utilities[s] <= retVI.utilities[<<0, 2>>]
        /\ retVI.policy[<<0, 2>>] = "East"

----------------------------------------------------------------------------
(* C9 *)

----------------------------------------------------------------------------
(* C10 *)

----------------------------------------------------------------------------
(* C11 *)

----------------------------------------------------------------------------
(* C12 *)

====
